---- MODULE Spec2Model ----
(***************************************************************************)
(* A model of the Tauri speech-to-text backend:                            *)
(*   - the Vosk live-session manager (vosk_live_transcriber.rs) and the    *)
(*     three commands of main.rs that reach it through the global mutex    *)
(*     VOSK_SESSION_MANAGER;                                               *)
(*   - the batch job transcribe_file_advanced_impl of main.rs.             *)
(***************************************************************************)
EXTENDS Integers, Sequences, FiniteSets, TLC

\* ------------------------------------------------------------------ bounds
\* Number of blocking-pool workers that run Vosk commands concurrently.
NumWorkers == 2
\* Largest number of sessions start_session is let to create in a run.
MaxStarts == 2

\* Number of batch jobs (transcribe_file_advanced calls) in flight at once.
NumJobs == 2

\* Largest number of i16 samples in the WAV a transcription pass reads.
MaxSamples == 4

\* Largest number of segments the engine's state holds after a decode.
MaxSegments == 2

\* Largest time, in thousandths of a second, of the range of times handed
\* to the timestamp renderers.
MaxStampMillis == 1200

\* Number of transcribe_audio_chunk calls that can be in flight at once.
NumCalls == 2

Workers == 1..NumWorkers
Jobs == 1..NumJobs

\* Texts a recognizer can hand back.
Texts == {"", "hello"}

\* Sample rates a caller passes to start_vosk_session.
SampleRates == {16000}

\* ------------------------------------------------------------- Vosk state
VARIABLES
    sessions,    \* VoskSessionManager.sessions: id -> VoskLiveSession
    recognizerOf, \* the Recognizer object each session in the table owns:
                 \* id -> the object's handle
    next_id,     \* VoskSessionManager.next_id
    mutexHolder, \* the worker holding VOSK_SESSION_MANAGER's lock, 0 when free
    poisonedBy,  \* the mutex's poison flag: the session id whose processing
                 \* panicked with the guard held, "none" while not poisoned
    pc,          \* each worker's position in its command
    cmd,         \* each worker's command and arguments
    local,       \* each worker's locals (the session under construction / teardown)
    returned,    \* the value a command that just completed hands to its caller
    issued,      \* history: ids returned by start_session
    ended        \* history: ids removed by end_session

voskVars == <<sessions, recognizerOf, next_id, mutexHolder, poisonedBy, pc, cmd, local, returned,
              issued, ended>>

\* ------------------------------------------------------------ batch state
VARIABLES
    jpc,         \* each batch job's position in transcribe_file_advanced_impl
    events,      \* each job's "transcription-progress" events, in emission order
    tempWav,     \* <app data dir>/temp_audio.wav: 0 when absent, else the job
                 \* whose input it was converted from
    audio,       \* the samples a job's transcribe_single_pass read: 0 before
                 \* the read, else the job whose input they were converted from
    jresult,     \* each job's return value
    undelivered  \* history: how many of each job's events the listener did
                 \* not get (app.emit returned Err)

batchVars == <<jpc, events, tempWav, audio, jresult, undelivered>>

\* ------------------------------------------------- single-pass data state
VARIABLES
    ppc,            \* the position of one transcription pass and of the
                    \* formatting of its segments
    wav,            \* the WAV the reader opened: channels, interleaved samples
    samples_mono,   \* transcribe_single_pass's samples_mono
    engineInput,    \* the buffers handed to state.full, in call order
    engineSegments, \* the segments the state holds after full()
    segments,       \* transcribe_single_pass's segments
    final_segments, \* transcribe_file_advanced_impl's final_segments
    srt,            \* the output of generate_srt, as a sequence of lines
    vtt             \* the output of generate_vtt, as a sequence of lines

passVars == <<ppc, wav, samples_mono, engineInput, engineSegments, segments,
              final_segments, srt, vtt>>

\* -------------------------------------------------- timestamp render state
VARIABLES
    stampTime,      \* the time handed to the timestamp renderers, in
                    \* thousandths of a second; -1 before any call
    stampSrt,       \* what format_timestamp_srt returned for it
    stampVtt        \* what format_timestamp_vtt returned for it

stampVars == <<stampTime, stampSrt, stampVtt>>

\* The Whisper live path: transcribe_audio_chunk calls and LIVE_CONTEXT.
VARIABLES
    lpc,         \* each call's position in transcribe_audio_chunk; once it
                 \* has returned, "Ok" or the error it returned
    webmFile,    \* <temp dir>/live_chunk.webm: the audio it holds, NoAudio
                 \* when absent
    wavFile,     \* <temp dir>/live_chunk.wav: the audio it was converted
                 \* from, NoAudio when absent
    heard,       \* the call whose audio the samples a call read from
                 \* live_chunk.wav were made from, 0 when it holds none
    liveLock,    \* the call holding LIVE_CONTEXT's lock, 0 when free
    asked,       \* the model_path argument of the call holding the lock, 0
                 \* when the lock is free
    context,     \* LiveTranscriptionContext.context: 0 for None, else the
                 \* model file the WhisperContext was loaded from
    model_path   \* LiveTranscriptionContext.model_path: 0 for None

liveVars == <<lpc, webmFile, wavFile, heard, liveLock, asked, context, model_path>>

vars == <<voskVars, batchVars, passVars, stampVars, liveVars>>

\* What the steps of each part of the program leave alone.
nonVoskVars == <<batchVars, passVars, stampVars, liveVars>>
nonBatchVars == <<voskVars, passVars, stampVars, liveVars>>
nonPassVars == <<voskVars, batchVars, stampVars, liveVars>>
nonStampVars == <<voskVars, batchVars, passVars, liveVars>>
nonLiveVars == <<voskVars, batchVars, passVars, stampVars>>

\* ----------------------------------------------------------- Vosk helpers
\* Mutant of FormatSessionId: the id is formatted from the number of active
\* sessions instead of the counter.
FormatSessionIdFromLen(n) == "vosk-" \o ToString(Cardinality(DOMAIN sessions) + 1)

\* format!("vosk-{}", self.next_id)
FormatSessionId(n) == "vosk-" \o ToString(n)

\* Mutant of NextIdAfterStart: the counter is not advanced.
NextIdNotAdvanced(n) == n

\* self.next_id += 1
NextIdAfterStart(n) == n + 1

\* Ids a caller may name in process_vosk_chunk / end_vosk_session.
CallerIds == { FormatSessionId(n) : n \in 1..MaxStarts }

\* anyhow!("Session not found: {}", session_id)
SessionNotFound(id) == [ok |-> FALSE, err |-> "Session not found", id |-> id]

\* anyhow!("Failed to lock session manager: {}", e)
LockFailed == [ok |-> FALSE, err |-> "Failed to lock session manager"]

\* format!("Failed to spawn task: {}", e), the JoinError of a panicked task
JoinFailed == [ok |-> FALSE, err |-> "Failed to spawn task"]

NoCmd == [op |-> "none"]
NoLocal == [model |-> "none", recognizer |-> "none"]

\* A command's return value `val`, with the worker `t` and command `c` it
\* answers and the raw answer `from` of the recognizer it was computed from
\* ("none" when there is none).
Returned(t, c, val, from) == [worker |-> t, cmd |-> c, val |-> val, from |-> from]

\* No return value is on its way to a caller.
NothingReturned == Returned(0, NoCmd, [ok |-> FALSE, err |-> "none"], "none")

\* VoskLiveSession { model, recognizer, sample_rate } as built by new()
NewSession(rate) ==
    [model |-> "alive", recognizer |-> "alive", sample_rate |-> rate, utterance |-> FALSE]

\* self.sessions.insert(session_id, session)
InsertSession(tbl, id, s) ==
    [k \in DOMAIN tbl \cup {id} |-> IF k = id THEN s ELSE tbl[k]]

\* Mutant of RemoveSession: the session is looked up but left in the table.
RemoveSessionKeeps(tbl, id) == tbl

\* Mutant of RemoveSession: the whole table is cleared.
RemoveSessionClears(tbl, id) == [k \in {} |-> tbl[k]]

\* self.sessions.remove(session_id)
RemoveSession(tbl, id) == [k \in DOMAIN tbl \ {id} |-> tbl[k]]

\* Mutant of FreshRecognizer: every session is given the same object.
SharedRecognizer ==
    IF DOMAIN recognizerOf = {} THEN next_id
    ELSE recognizerOf[CHOOSE id \in DOMAIN recognizerOf : TRUE]

\* Recognizer::new returns a new object.  Objects are named by the order of
\* their creation: one recognizer was created for every id given out so far,
\* so the new one is the next_id-th.
FreshRecognizer == next_id

\* self.sessions.len()
active_sessions == Cardinality(DOMAIN sessions)

\* Mutant of LockAvailable: lock() returns without waiting for the holder.
LockNeverWaits == TRUE

\* VOSK_SESSION_MANAGER.lock() blocks until no other thread holds the mutex
LockAvailable == mutexHolder = 0

\* The DecodingState / error accept_waveform can return.
DecodingStates == {"Finalized", "Running", "Failed", "Err"}

\* The CompleteResult of result()/final_result(): a single result with a text,
\* or the multiple-alternatives form for which single() is None.
CompleteResults == [kind : {"single"}, text : Texts] \cup {[kind |-> "multiple", text |-> ""]}

\* Mutant of ChunkResult: a failed frame is surfaced as an error.
ChunkResultSurfacesFailure(state, res) ==
    CASE state = "Finalized" ->
            [ok |-> TRUE,
             text |-> IF res.kind = "single" THEN res.text ELSE "",
             is_partial |-> FALSE]
      [] state = "Running" ->
            [ok |-> TRUE, text |-> res.text, is_partial |-> TRUE]
      [] OTHER ->
            [ok |-> FALSE, err |-> "Decoding failed"]

\* Mutant of ChunkResult: the partial text of a running utterance is handed
\* back as final.
ChunkResultRunningFinal(state, res) ==
    CASE state = "Finalized" ->
            [ok |-> TRUE,
             text |-> IF res.kind = "single" THEN res.text ELSE "",
             is_partial |-> FALSE]
      [] state = "Running" ->
            [ok |-> TRUE, text |-> res.text, is_partial |-> FALSE]
      [] OTHER ->
            [ok |-> TRUE, text |-> "", is_partial |-> TRUE]

\* VoskLiveSession::process_chunk: the value returned for a decoding state
ChunkResult(state, res) ==
    CASE state = "Finalized" ->
            [ok |-> TRUE,
             text |-> IF res.kind = "single" THEN res.text ELSE "",
             is_partial |-> FALSE]
      [] state = "Running" ->
            [ok |-> TRUE, text |-> res.text, is_partial |-> TRUE]
      [] OTHER ->
            [ok |-> TRUE, text |-> "", is_partial |-> TRUE]

\* The recognizer's state, whether an utterance is in progress (`u`), after
\* accept_waveform returned `state`: Running opens or continues an utterance,
\* Finalized closes it, a failed frame leaves it as it was.
UtteranceAfter(state, u) ==
    CASE state = "Running" -> TRUE
      [] state = "Finalized" -> FALSE
      [] OTHER -> u

\* VoskLiveSession::finalize: the text returned for a final_result()
FinalizeText(res) == IF res.kind = "single" THEN res.text ELSE ""

\* ------------------------------------------------------------- Vosk Init
VoskInit ==
    /\ sessions = <<>>
    /\ recognizerOf = <<>>
    /\ next_id = 1
    /\ mutexHolder = 0
    /\ poisonedBy = "none"
    /\ pc = [t \in Workers |-> "idle"]
    /\ cmd = [t \in Workers |-> NoCmd]
    /\ local = [t \in Workers |-> NoLocal]
    /\ returned = NothingReturned
    /\ issued = {}
    /\ ended = {}

\* ----------------------------------------------------------- Vosk actions
\* A return value is observed by its caller at the instant the command
\* completes: the hand-over (Deliver) touches nothing else, so it is taken
\* before any other step.
Quiet == returned = NothingReturned

\* Mutant of Release: the closure returns with the mutex still held.
ReleaseKeepsLock(t, val, from) ==
    /\ mutexHolder' = mutexHolder
    /\ pc' = [pc EXCEPT ![t] = "idle"]
    /\ cmd' = [cmd EXCEPT ![t] = NoCmd]
    /\ local' = [local EXCEPT ![t] = NoLocal]
    /\ returned' = Returned(t, cmd[t], val, from)

\* The spawn_blocking closure returns: the guard `manager` is dropped and the
\* command hands `val` back.
Release(t, val, from) ==
    /\ mutexHolder' = 0
    /\ pc' = [pc EXCEPT ![t] = "idle"]
    /\ cmd' = [cmd EXCEPT ![t] = NoCmd]
    /\ local' = [local EXCEPT ![t] = NoLocal]
    /\ returned' = Returned(t, cmd[t], val, from)

\* start_vosk_session up to spawn_blocking: the models directory is resolved
\* and the model's path must exist, else the command returns at once.
IssueStart(t) ==
    /\ Quiet
    /\ UNCHANGED nonVoskVars
    /\ pc[t] = "idle"
    /\ next_id <= MaxStarts
    /\ \E dirOk \in BOOLEAN, exists \in BOOLEAN, rate \in SampleRates :
         IF dirOk /\ exists
         THEN /\ pc' = [pc EXCEPT ![t] = "spawned"]
              /\ cmd' = [cmd EXCEPT ![t] = [op |-> "start", rate |-> rate]]
              /\ UNCHANGED returned
         ELSE /\ returned' = Returned(t, [op |-> "start", rate |-> rate],
                     [ok |-> FALSE,
                      err |-> IF dirOk THEN "Vosk model not found"
                              ELSE "Failed to create models directory"], "none")
              /\ UNCHANGED <<pc, cmd>>
    /\ UNCHANGED <<sessions, recognizerOf, next_id, mutexHolder, poisonedBy, local, issued, ended>>

\* process_vosk_chunk up to spawn_blocking
IssueProcess(t) ==
    /\ Quiet
    /\ UNCHANGED nonVoskVars
    /\ pc[t] = "idle"
    /\ \E id \in CallerIds :
         cmd' = [cmd EXCEPT ![t] = [op |-> "process", id |-> id, cancelled |-> FALSE]]
    /\ pc' = [pc EXCEPT ![t] = "spawned"]
    /\ UNCHANGED <<sessions, recognizerOf, next_id, mutexHolder, poisonedBy, local, returned,
                   issued, ended>>

\* end_vosk_session up to spawn_blocking
IssueEnd(t) ==
    /\ Quiet
    /\ UNCHANGED nonVoskVars
    /\ pc[t] = "idle"
    /\ \E id \in CallerIds :
         cmd' = [cmd EXCEPT ![t] = [op |-> "end", id |-> id]]
    /\ pc' = [pc EXCEPT ![t] = "spawned"]
    /\ UNCHANGED <<sessions, recognizerOf, next_id, mutexHolder, poisonedBy, local, returned,
                   issued, ended>>

\* VOSK_SESSION_MANAGER.lock().map_err(..)? : a poisoned mutex makes the
\* command fail (the guard inside the PoisonError is dropped at once).
Lock(t) ==
    /\ Quiet
    /\ UNCHANGED nonVoskVars
    /\ pc[t] = "spawned"
    /\ LockAvailable
    /\ IF poisonedBy # "none"
       THEN /\ Release(t, LockFailed, "none")
       ELSE /\ pc' = [pc EXCEPT ![t] = "locked"]
            /\ mutexHolder' = t
            /\ UNCHANGED <<cmd, local, returned>>
    /\ UNCHANGED <<sessions, recognizerOf, next_id, poisonedBy, issued, ended>>

\* VoskLiveSession::new, Model::new(model_path_str)
StartLoadModel(t) ==
    /\ Quiet
    /\ UNCHANGED nonVoskVars
    /\ pc[t] = "locked"
    /\ cmd[t].op = "start"
    /\ \E loaded \in BOOLEAN :
         IF loaded
         THEN /\ local' = [local EXCEPT ![t] = [model |-> "alive", recognizer |-> "none"]]
              /\ pc' = [pc EXCEPT ![t] = "model_loaded"]
              /\ UNCHANGED <<mutexHolder, cmd, returned>>
         ELSE Release(t, [ok |-> FALSE, err |-> "Failed to load Vosk model"], "none")
    /\ UNCHANGED <<sessions, recognizerOf, next_id, poisonedBy, issued, ended>>

\* Mutant of StartNewRecognizer: start_session advances next_id before it
\* builds the session, so a recognizer that cannot be created costs an id.
StartNewRecognizerCountsFirst(t) ==
    /\ Quiet
    /\ UNCHANGED nonVoskVars
    /\ pc[t] = "model_loaded"
    /\ next_id' = NextIdAfterStart(next_id)
    /\ \E created \in BOOLEAN :
         IF created
         THEN LET id == FormatSessionId(next_id) IN
              /\ sessions' = InsertSession(sessions, id, NewSession(cmd[t].rate))
              /\ recognizerOf' = InsertSession(recognizerOf, id, FreshRecognizer)
              /\ issued' = issued \cup {id}
              /\ Release(t, [ok |-> TRUE, id |-> id], "none")
         ELSE /\ Release(t, [ok |-> FALSE, err |-> "Failed to create Vosk recognizer"], "none")
              /\ UNCHANGED <<sessions, recognizerOf, issued>>
    /\ UNCHANGED <<poisonedBy, ended>>

\* VoskLiveSession::new, Recognizer::new(model_ref, sample_rate), then
\* start_session: the id is formatted, next_id advanced, the session inserted.
\* When the recognizer cannot be created the local model_arc is dropped.
StartNewRecognizer(t) ==
    /\ Quiet
    /\ UNCHANGED nonVoskVars
    /\ pc[t] = "model_loaded"
    /\ \E created \in BOOLEAN :
         IF created
         THEN LET id == FormatSessionId(next_id) IN
              /\ sessions' = InsertSession(sessions, id, NewSession(cmd[t].rate))
              /\ recognizerOf' = InsertSession(recognizerOf, id, FreshRecognizer)
              /\ next_id' = NextIdAfterStart(next_id)
              /\ issued' = issued \cup {id}
              /\ Release(t, [ok |-> TRUE, id |-> id], "none")
         ELSE /\ Release(t, [ok |-> FALSE, err |-> "Failed to create Vosk recognizer"], "none")
              /\ UNCHANGED <<sessions, recognizerOf, next_id, issued>>
    /\ UNCHANGED <<poisonedBy, ended>>

\* VoskSessionManager::process_chunk, self.sessions.get_mut(session_id)
ProcessLookup(t) ==
    /\ Quiet
    /\ UNCHANGED nonVoskVars
    /\ pc[t] = "locked"
    /\ cmd[t].op = "process"
    /\ IF cmd[t].id \in DOMAIN sessions
       THEN /\ pc' = [pc EXCEPT ![t] = "decoding"]
            /\ UNCHANGED <<mutexHolder, cmd, local, returned>>
       ELSE Release(t, SessionNotFound(cmd[t].id), "none")
    /\ UNCHANGED <<sessions, recognizerOf, next_id, poisonedBy, issued, ended>>

\* VoskLiveSession::process_chunk: accept_waveform returns, the result is
\* classified, and the command returns.
ProcessDecode(t) ==
    /\ Quiet
    /\ UNCHANGED nonVoskVars
    /\ pc[t] = "decoding"
    /\ LET id == cmd[t].id IN
       \E state \in DecodingStates, res \in CompleteResults :
         /\ state = "Running" => res.kind = "single"
         /\ state \in {"Failed", "Err"} => res = [kind |-> "multiple", text |-> ""]
         /\ sessions' = [sessions EXCEPT ![id].utterance = UtteranceAfter(state, @)]
         /\ UNCHANGED recognizerOf
         /\ Release(t, ChunkResult(state, res), state)
    /\ UNCHANGED <<next_id, poisonedBy, issued, ended>>

\* The worker panics inside the recognizer: unwinding drops the guard, which
\* poisons the mutex, and the command's JoinHandle yields a JoinError.
ProcessPanic(t) ==
    /\ Quiet
    /\ UNCHANGED nonVoskVars
    /\ pc[t] = "decoding"
    /\ poisonedBy' = cmd[t].id
    /\ Release(t, JoinFailed, "panic")
    /\ UNCHANGED <<sessions, recognizerOf, next_id, issued, ended>>

\* VoskSessionManager::end_session, self.sessions.remove(session_id)
EndRemove(t) ==
    /\ Quiet
    /\ UNCHANGED nonVoskVars
    /\ pc[t] = "locked"
    /\ cmd[t].op = "end"
    /\ IF cmd[t].id \in DOMAIN sessions
       THEN /\ sessions' = RemoveSession(sessions, cmd[t].id)
            /\ recognizerOf' = RemoveSession(recognizerOf, cmd[t].id)
            /\ local' = [local EXCEPT ![t] =
                   [model |-> sessions[cmd[t].id].model,
                    recognizer |-> sessions[cmd[t].id].recognizer]]
            /\ ended' = ended \cup {cmd[t].id}
            /\ pc' = [pc EXCEPT ![t] = "finalizing"]
            /\ UNCHANGED <<mutexHolder, cmd, returned>>
       ELSE /\ Release(t, SessionNotFound(cmd[t].id), "none")
            /\ UNCHANGED <<sessions, recognizerOf, ended>>
    /\ UNCHANGED <<next_id, poisonedBy, issued>>

\* VoskLiveSession::finalize: final_result() returns and the text is taken
EndFinalize(t) ==
    /\ Quiet
    /\ UNCHANGED nonVoskVars
    /\ pc[t] = "finalizing"
    /\ \E res \in CompleteResults :
         local' = [local EXCEPT ![t] =
                [model |-> local[t].model, recognizer |-> local[t].recognizer,
                 res |-> res, final_text |-> FinalizeText(res)]]
    /\ pc' = [pc EXCEPT ![t] = "drop_session"]
    /\ UNCHANGED <<sessions, recognizerOf, next_id, mutexHolder, poisonedBy, cmd, returned,
                   issued, ended>>

\* The local `session` goes out of scope at the end of end_session: its fields
\* are dropped in declaration order, `model` (the only Arc, so the Model is
\* freed) before `recognizer`.
DropFirstField(t) ==
    /\ Quiet
    /\ UNCHANGED nonVoskVars
    /\ pc[t] = "drop_session"
    /\ local' = [local EXCEPT ![t].model = "dropped"]
    /\ pc' = [pc EXCEPT ![t] = "drop_rest"]
    /\ UNCHANGED <<sessions, recognizerOf, next_id, mutexHolder, poisonedBy, cmd, returned,
                   issued, ended>>

\* ... then `recognizer`; end_session returns Ok(final_text).
DropSecondField(t) ==
    /\ Quiet
    /\ UNCHANGED nonVoskVars
    /\ pc[t] = "drop_rest"
    /\ Release(t, [ok |-> TRUE, text |-> local[t].final_text], local[t].res.kind)
    /\ UNCHANGED <<sessions, recognizerOf, next_id, poisonedBy, issued, ended>>

\* The caller drops the future of a process_vosk_chunk whose blocking task is
\* running inside the manager: the JoinHandle is detached and the task runs
\* to completion.
Cancel(t) ==
    /\ Quiet
    /\ UNCHANGED nonVoskVars
    /\ pc[t] \in {"locked", "decoding"}
    /\ cmd[t].op = "process"
    /\ ~cmd[t].cancelled
    /\ cmd' = [cmd EXCEPT ![t].cancelled = TRUE]
    /\ UNCHANGED <<sessions, recognizerOf, next_id, mutexHolder, poisonedBy, pc, local, returned,
                   issued, ended>>

\* The caller receives the command's return value.
Deliver ==
    /\ ~Quiet
    /\ UNCHANGED nonVoskVars
    /\ returned' = NothingReturned
    /\ UNCHANGED <<sessions, recognizerOf, next_id, mutexHolder, poisonedBy, pc, cmd, local,
                   issued, ended>>

\* ---------------------------------------------------------- batch helpers
\* The variants of TranscriptionProgress, numbered in declaration order.
StageRank(e) ==
    CASE e.type = "converting" -> 1
      [] e.type = "detecting_language" -> 2
      [] e.type = "language_detected" -> 3
      [] e.type = "transcribing" -> 4
      [] e.type = "generating_subtitles" -> 5
      [] e.type = "complete" -> 6

\* app.emit("transcription-progress", e): the event is emitted.
Emit(log, e) == Append(log, e)

\* The Result app.emit returns: the event reached the listener or it did not.
EmitResults == {"Ok", "Err"}

\* Mutant of DiscardEmitResult: the Result of emit is propagated with `?`.
PropagateEmitResult(r) == IF r = "Err" THEN "return_err" ELSE "continue"

\* app.emit(..).ok(): the Result is turned into an Option that is dropped,
\* and the job goes on whatever it was.
DiscardEmitResult(r) == "continue"

\* The number of deliveries that failed among the results rs.
RECURSIVE FailedDeliveries(_)
FailedDeliveries(rs) ==
    IF rs = <<>> THEN 0
    ELSE (IF Head(rs) = "Err" THEN 1 ELSE 0) + FailedDeliveries(Tail(rs))

Converting == [type |-> "converting"]
Transcribing(p) == [type |-> "transcribing", progress |-> p]
LanguageDetected == [type |-> "language_detected"]
GeneratingSubtitles == [type |-> "generating_subtitles"]
Complete == [type |-> "complete"]

\* The progress value of the one Transcribing event the job emits.
TranscribingProgress == 50

\* Mutant of JobErr: a failure is handed back as if it were a result.
JobErrAsResult(msg) == [ok |-> TRUE, err |-> msg]

\* Err(anyhow::Error) with its message
JobErr(msg) == [ok |-> FALSE, err |-> msg]
NoJobResult == JobErr("none")

\* ------------------------------------------------------------- batch Init
BatchInit ==
    /\ jpc = [j \in Jobs |-> "idle"]
    /\ events = [j \in Jobs |-> <<>>]
    /\ tempWav = 0
    /\ audio = [j \in Jobs |-> 0]
    /\ jresult = [j \in Jobs |-> NoJobResult]
    /\ undelivered = [j \in Jobs |-> 0]

\* ---------------------------------------------------------- batch actions
JobFails(j, msg) ==
    /\ jpc' = [jpc EXCEPT ![j] = "done"]
    /\ jresult' = [jresult EXCEPT ![j] = JobErr(msg)]

\* Job j emitted events whose deliveries returned rs.
Delivered(j, rs) ==
    undelivered' = [undelivered EXCEPT ![j] = @ + FailedDeliveries(rs)]

\* What the job does after the emits that returned rs: it goes on unless one
\* of the results is propagated.
GoesOn(rs) == \A i \in 1..Len(rs) : DiscardEmitResult(rs[i]) = "continue"

\* Mutant of JobValidate: Converting is emitted before the input file and
\* the model file are looked for.
JobValidateEmitsFirst(j) ==
    /\ jpc[j] = "idle"
    /\ UNCHANGED nonBatchVars
    /\ \E fileExists \in BOOLEAN, modelExists \in BOOLEAN, r \in EmitResults :
         /\ events' = [events EXCEPT ![j] = Emit(@, Converting)]
         /\ Delivered(j, <<r>>)
         /\ IF ~fileExists THEN JobFails(j, "File not found")
            ELSE IF ~modelExists THEN JobFails(j, "Model not found")
            ELSE jpc' = [jpc EXCEPT ![j] = "converting"] /\ UNCHANGED jresult
    /\ UNCHANGED <<tempWav, audio>>

\* transcribe_file_advanced_impl up to the conversion: the input file, the
\* models directory, the model file and the temp directory are checked, then
\* Converting is emitted.
JobValidate(j) ==
    /\ jpc[j] = "idle"
    /\ UNCHANGED nonBatchVars
    /\ \E fileExists \in BOOLEAN, dirOk \in BOOLEAN, modelExists \in BOOLEAN,
          tempDirOk \in BOOLEAN, r \in EmitResults :
         IF ~fileExists THEN JobFails(j, "File not found")
                             /\ UNCHANGED <<events, undelivered>>
         ELSE IF ~dirOk THEN JobFails(j, "Failed to create models directory")
                             /\ UNCHANGED <<events, undelivered>>
         ELSE IF ~modelExists THEN JobFails(j, "Model not found")
                                   /\ UNCHANGED <<events, undelivered>>
         ELSE IF ~tempDirOk THEN JobFails(j, "Failed to create temp directory")
                                 /\ UNCHANGED <<events, undelivered>>
         ELSE /\ events' = [events EXCEPT ![j] = Emit(@, Converting)]
              /\ Delivered(j, <<r>>)
              /\ IF GoesOn(<<r>>)
                 THEN jpc' = [jpc EXCEPT ![j] = "converting"] /\ UNCHANGED jresult
                 ELSE JobFails(j, "emit failed")
    /\ UNCHANGED <<tempWav, audio>>

\* convert_audio_with_ffmpeg(&audio_path, &temp_wav): ffprobe, then ffmpeg -y
\* writes temp_audio.wav; on success Transcribing is emitted.  A failing run
\* fails the job and may or may not have written the output file.
JobConvert(j) ==
    /\ jpc[j] = "converting"
    /\ UNCHANGED nonBatchVars
    /\ \E converted \in BOOLEAN, r \in EmitResults :
         IF converted
         THEN /\ tempWav' = j
              /\ events' = [events EXCEPT ![j] = Emit(@, Transcribing(TranscribingProgress))]
              /\ Delivered(j, <<r>>)
              /\ IF GoesOn(<<r>>)
                 THEN jpc' = [jpc EXCEPT ![j] = "spawned"] /\ UNCHANGED jresult
                 ELSE JobFails(j, "emit failed")
         ELSE /\ \E written \in BOOLEAN : tempWav' = IF written THEN j ELSE tempWav
              /\ JobFails(j, "ffmpeg conversion failed")
              /\ UNCHANGED <<events, undelivered>>
    /\ UNCHANGED audio

\* transcribe_single_pass, load audio: the WAV at wav_path is opened, its
\* format validated and its samples read.
JobReadWav(j) ==
    /\ jpc[j] = "spawned"
    /\ UNCHANGED nonBatchVars
    /\ IF tempWav = 0
       THEN JobFails(j, "Failed to open WAV file") /\ UNCHANGED audio
       ELSE \E valid \in BOOLEAN :
              IF valid
              THEN /\ audio' = [audio EXCEPT ![j] = tempWav]
                   /\ jpc' = [jpc EXCEPT ![j] = "loading"]
                   /\ UNCHANGED jresult
              ELSE JobFails(j, "Unsupported WAV format") /\ UNCHANGED audio
    /\ UNCHANGED <<events, tempWav, undelivered>>

\* transcribe_single_pass, load Whisper model and create state: from here
\* until the function returns the job holds a WhisperContext of its own.
JobLoadModel(j) ==
    /\ jpc[j] = "loading"
    /\ UNCHANGED nonBatchVars
    /\ \E outcome \in {"ok", "Failed to load Whisper model",
                        "Failed to create Whisper state"} :
         IF outcome = "ok"
         THEN jpc' = [jpc EXCEPT ![j] = "decoding"] /\ UNCHANGED jresult
         ELSE JobFails(j, outcome)
    /\ UNCHANGED <<events, tempWav, audio, undelivered>>

\* transcribe_single_pass, run transcription / collect results (the context
\* is dropped when the function returns), and the await of the blocking
\* task; on success LanguageDetected and GeneratingSubtitles are emitted.
JobDecode(j) ==
    /\ jpc[j] = "decoding"
    /\ UNCHANGED nonBatchVars
    /\ \E outcome \in {"ok", "Transcription failed",
                        "Failed to spawn blocking Whisper task"},
          r1 \in EmitResults, r2 \in EmitResults :
         IF outcome = "ok"
         THEN IF GoesOn(<<r1>>)
              THEN /\ events' = [events EXCEPT ![j] =
                          Emit(Emit(@, LanguageDetected), GeneratingSubtitles)]
                   /\ Delivered(j, <<r1, r2>>)
                   /\ IF GoesOn(<<r2>>)
                      THEN jpc' = [jpc EXCEPT ![j] = "formatting"] /\ UNCHANGED jresult
                      ELSE JobFails(j, "emit failed")
              ELSE /\ events' = [events EXCEPT ![j] = Emit(@, LanguageDetected)]
                   /\ Delivered(j, <<r1>>)
                   /\ JobFails(j, "emit failed")
         ELSE JobFails(j, outcome) /\ UNCHANGED <<events, undelivered>>
    /\ UNCHANGED <<tempWav, audio>>

\* The segments are indexed and formatted, temp_audio.wav is removed,
\* Complete is emitted and the result returned.
JobFinish(j) ==
    /\ jpc[j] = "formatting"
    /\ UNCHANGED nonBatchVars
    /\ tempWav' = 0
    /\ \E r \in EmitResults :
         /\ events' = [events EXCEPT ![j] = Emit(@, Complete)]
         /\ Delivered(j, <<r>>)
         /\ jpc' = [jpc EXCEPT ![j] = "done"]
         /\ jresult' = [jresult EXCEPT ![j] =
                IF GoesOn(<<r>>) THEN [ok |-> TRUE, audio |-> audio[j]]
                ELSE JobErr("emit failed")]
    /\ UNCHANGED audio

\* ------------------------------------------------- single-pass data helpers
\* Channel counts of the WAV: mono, stereo, and one that is rejected.
Channels == {1, 2, 3}

\* segment.start_timestamp() / end_timestamp() count hundredths of a second:
\* `as f64 / 100.0`.  The model keeps times in hundredths.
CentisPerSecond == 100

\* Timestamps the engine gives a segment's start, and its end.  All are
\* multiples of half a second, which f64 holds exactly.
EngineStarts == {0, 50, 150}
EngineEnds == {200}

\* Texts of the engine's segments, as sequences of tokens; " " stands for
\* white space.  "7" is a text that reads like a number.
EngineTexts == {<<>>, <<" ">>, <<" ", "hello">>, <<"7", " ">>}

\* A segment whose text cannot be had from the state: get_segment(i) gives
\* None or to_str_lossy() gives Err.  The text it would have had is not white.
UnreadableSegment == [t0 |-> 50, t1 |-> 200, text |-> <<"hello">>, readable |-> FALSE]

EngineSegment ==
    [t0 : EngineStarts, t1 : EngineEnds, text : EngineTexts, readable : {TRUE}]
        \cup {UnreadableSegment}

\* Sequences over S of length at most n.
SeqUpTo(S, n) == UNION {[1..k -> S] : k \in 0..n}

\* What the state can hold after full().
EngineOutputs == SeqUpTo(EngineSegment, MaxSegments)

\* str::trim, from the front ...
RECURSIVE TrimStart(_)
TrimStart(t) ==
    IF t # <<>> /\ Head(t) = " " THEN TrimStart(Tail(t)) ELSE t

\* ... and from the back.
RECURSIVE TrimEnd(_)
TrimEnd(t) ==
    IF t # <<>> /\ t[Len(t)] = " " THEN TrimEnd(SubSeq(t, 1, Len(t) - 1)) ELSE t

Trim(t) == TrimEnd(TrimStart(t))

\* convert_stereo_to_mono_audio into a buffer of samples_f32.len() / 2: each
\* output sample is made from one left/right pair.  A sample of samples_mono
\* is modelled by the set of WAV samples it was made from.
MonoFromStereo(s) == [k \in 1..(Len(s) \div 2) |-> {s[2 * k - 1], s[2 * k]}]

\* samples_f32 used as it is.
MonoFromMono(s) == [k \in 1..Len(s) |-> {s[k]}]

\* Mutant of EngineUnits: the buffer is handed over without its last sample.
EngineUnitsTruncated(buf) ==
    <<[offset |-> 0, samples |-> SubSeq(buf, 1, Len(buf) - 1)]>>

\* state.full(params, &samples_mono): the one call, on the whole buffer.  A
\* unit of audio is the buffer of a call with the position of its first sample.
EngineUnits(buf) == <<[offset |-> 0, samples |-> buf]>>

\* Mutant of IsKept: the text is tested for emptiness before it is trimmed.
IsKeptUntrimmed(seg) == seg.readable /\ seg.text # <<>>

\* if let Some(segment) = state.get_segment(i), if let Ok(text_cow) =
\* segment.to_str_lossy(), if !text.is_empty(), text being text_cow.trim()
IsKept(seg) == seg.readable /\ Trim(seg.text) # <<>>

\* The positions, in the engine's output, of the segments that are kept.
KeptPositions(raw) ==
    SelectSeq([i \in 1..Len(raw) |-> i], LAMBDA i : IsKept(raw[i]))

\* Collect results: for i in 0..num_segments, each kept segment's times in
\* seconds and its trimmed text are pushed.
CollectSegments(raw) ==
    LET kept == KeptPositions(raw)
    IN [k \in 1..Len(kept) |->
           [start_time |-> raw[kept[k]].t0, end_time |-> raw[kept[k]].t1,
            text |-> Trim(raw[kept[k]].text)]]

\* Mutant of IndexSegments: a segment's index is its position in the
\* engine's output, counted before the empty segments were left out.
IndexByEnginePosition(segs) ==
    [k \in 1..Len(segs) |->
        [index |-> KeptPositions(engineSegments)[k] - 1,
         start_time |-> segs[k].start_time,
         end_time |-> segs[k].end_time,
         text |-> segs[k].text]]

\* segments.iter().enumerate().map(|(idx, (start, end, text))| SubtitleSegment
\* { index: idx, .. }).collect()
IndexSegments(segs) ==
    [k \in 1..Len(segs) |->
        [index |-> k - 1,
         start_time |-> segs[k].start_time,
         end_time |-> segs[k].end_time,
         text |-> segs[k].text]]

\* {:02} and {:03}
Pad2(n) == IF n < 10 THEN "0" \o ToString(n) ELSE ToString(n)
Pad3(n) == IF n < 10 THEN "00" \o ToString(n)
           ELSE IF n < 100 THEN "0" \o ToString(n) ELSE ToString(n)

\* `* 1000.0`: thousandths in a second.  A time handed to the renderers is
\* an f64 number of seconds; the model names it by the whole number t of
\* thousandths it was made from, the f64 being the one nearest to t / 1000.
MillisPerSecond == 1000

\* The f64 of a segment time kept in hundredths.
SecondsOf(cs) == cs * (MillisPerSecond \div CentisPerSecond)

\* The number of binary digits of the whole number n.
RECURSIVE BitLength(_)
BitLength(n) == IF n = 0 THEN 0 ELSE 1 + BitLength(n \div 2)

\* The number of zero bits that follow the binary point of m / 1000, 0 < m.
RECURSIVE LeadingZeroBits(_)
LeadingZeroBits(m) ==
    IF 2 * m >= MillisPerSecond THEN 0 ELSE 1 + LeadingZeroBits(2 * m)

\* The number of bits after the binary point that the f64 nearest to t / 1000
\* keeps: its 53 significant bits less those of the whole seconds.
FractionBits(t) ==
    IF t \div MillisPerSecond >= 1
    THEN 53 - BitLength(t \div MillisPerSecond)
    ELSE 53 + LeadingZeroBits(t % MillisPerSecond)

\* 2^n modulo 1000, by repeated squaring.
RECURSIVE PowerOfTwoMod(_)
PowerOfTwoMod(n) ==
    IF n = 0 THEN 1
    ELSE LET h == PowerOfTwoMod(n \div 2)
         IN (h * h * (IF n % 2 = 1 THEN 2 ELSE 1)) % MillisPerSecond

\* Long division of r / 1000 in base 2: the remainder left after n bits,
\* which is r * 2^n modulo 1000.
RemainderAfter(r, n) == (r * PowerOfTwoMod(n)) % MillisPerSecond

RECURSIVE PowerOfTwo(_)
PowerOfTwo(n) == IF n = 0 THEN 1 ELSE 2 * PowerOfTwo(n - 1)

\* ((seconds % 1.0) * 1000.0).floor() in f64, for seconds nearest to t / 1000.
\* With m = t mod 1000 and r the remainder of t / 1000 beyond the bits kept:
\* when the division is exact or was rounded up the product is at least m
\* and floors to m; when it was rounded down the product is m - r / 2^bits,
\* which rounds back to m only if that is within half a unit in the last
\* place of the f64s below m, and floors to m - 1 otherwise.
F64Millis(t) ==
    LET m == t % MillisPerSecond
        bits == FractionBits(t)
        r == RemainderAfter(m, bits)
        x == bits + BitLength(m - 1) - 54
    IN IF m = 0 \/ r = 0 \/ 2 * r > MillisPerSecond THEN m
       ELSE IF x >= 0 /\ r <= PowerOfTwo(x) THEN m
       ELSE m - 1

\* format_timestamp_srt(seconds), seconds being the f64 nearest to t / 1000
format_timestamp_srt(t) ==
    LET hours == t \div (3600 * MillisPerSecond)
        minutes == (t % (3600 * MillisPerSecond)) \div (60 * MillisPerSecond)
        secs == (t % (60 * MillisPerSecond)) \div MillisPerSecond
        millis == F64Millis(t)
    IN Pad2(hours) \o ":" \o Pad2(minutes) \o ":" \o Pad2(secs) \o "," \o Pad3(millis)

\* format_timestamp_vtt(seconds)
format_timestamp_vtt(t) ==
    LET hours == t \div (3600 * MillisPerSecond)
        minutes == (t % (3600 * MillisPerSecond)) \div (60 * MillisPerSecond)
        secs == (t % (60 * MillisPerSecond)) \div MillisPerSecond
        millis == F64Millis(t)
    IN Pad2(hours) \o ":" \o Pad2(minutes) \o ":" \o Pad2(secs) \o "." \o Pad3(millis)

\* Times handed to the renderers: every thousandth up to MaxStampMillis, and
\* 3661.234 s.
StampTimes == (0..MaxStampMillis) \cup {3661234}

\* Mutant of SrtIndexLine: the index is written as it is stored.
SrtIndexLineZeroBased(seg) == <<ToString(seg.index)>>

\* format!("{}\n", segment.index + 1)
SrtIndexLine(seg) == <<ToString(seg.index + 1)>>

\* The four lines generate_srt writes for one segment; a line is a sequence
\* of tokens, the empty sequence a blank line.
SrtBlock(seg) ==
    << SrtIndexLine(seg),
       <<format_timestamp_srt(SecondsOf(seg.start_time)), " --> ",
         format_timestamp_srt(SecondsOf(seg.end_time))>>,
       Trim(seg.text),
       <<>> >>

RECURSIVE generate_srt(_)
generate_srt(segs) ==
    IF segs = <<>> THEN <<>>
    ELSE SrtBlock(Head(segs)) \o generate_srt(Tail(segs))

\* String::from("WEBVTT\n\n")
VttHeader == << <<"WEBVTT">>, <<>> >>

\* Mutant of VttBlock: a cue is written as an SRT block, index line first.
VttBlockWithIndex(seg) == SrtBlock(seg)

\* The three lines generate_vtt writes for one segment.
VttBlock(seg) ==
    << <<format_timestamp_vtt(SecondsOf(seg.start_time)), " --> ",
         format_timestamp_vtt(SecondsOf(seg.end_time))>>,
       Trim(seg.text),
       <<>> >>

RECURSIVE VttBlocks(_)
VttBlocks(segs) ==
    IF segs = <<>> THEN <<>>
    ELSE VttBlock(Head(segs)) \o VttBlocks(Tail(segs))

generate_vtt(segs) == VttHeader \o VttBlocks(segs)

\* ---------------------------------------------------- single-pass data Init
PassInit ==
    /\ ppc = "idle"
    /\ wav = [channels |-> 1, samples |-> <<>>]
    /\ samples_mono = <<>>
    /\ engineInput = <<>>
    /\ engineSegments = <<>>
    /\ segments = <<>>
    /\ final_segments = <<>>
    /\ srt = <<>>
    /\ vtt = <<>>

\* ------------------------------------------------- single-pass data actions
\* hound::WavReader::open(wav_path) and reader.samples(): a WAV of some
\* channel count and length; a sample is named by its position in the file.
PassOpenWav ==
    /\ ppc = "idle"
    /\ UNCHANGED nonPassVars
    /\ \E c \in Channels, n \in 0..MaxSamples :
         wav' = [channels |-> c, samples |-> [i \in 1..n |-> i]]
    /\ ppc' = "opened"
    /\ UNCHANGED <<samples_mono, engineInput, engineSegments, segments,
                   final_segments, srt, vtt>>

\* Convert stereo to mono if needed: a stereo buffer with a half pair and a
\* channel count other than 1 or 2 fail the pass.
PassToMono ==
    /\ ppc = "opened"
    /\ UNCHANGED nonPassVars
    /\ IF wav.channels = 2 /\ Len(wav.samples) % 2 = 0
       THEN samples_mono' = MonoFromStereo(wav.samples) /\ ppc' = "audio"
       ELSE IF wav.channels = 1
       THEN samples_mono' = MonoFromMono(wav.samples) /\ ppc' = "audio"
       ELSE UNCHANGED samples_mono /\ ppc' = "failed"
    /\ UNCHANGED <<wav, engineInput, engineSegments, segments, final_segments, srt, vtt>>

\* Run transcription: state.full(params, &samples_mono), after which the
\* state holds the engine's segments, or the pass fails.
PassDecode ==
    /\ ppc = "audio"
    /\ UNCHANGED nonPassVars
    /\ engineInput' = EngineUnits(samples_mono)
    /\ \E decoded \in BOOLEAN :
         IF decoded
         THEN /\ \E out \in EngineOutputs : engineSegments' = out
              /\ ppc' = "decoded"
         ELSE UNCHANGED engineSegments /\ ppc' = "failed"
    /\ UNCHANGED <<wav, samples_mono, segments, final_segments, srt, vtt>>

\* Collect results
PassCollect ==
    /\ ppc = "decoded"
    /\ UNCHANGED nonPassVars
    /\ segments' = CollectSegments(engineSegments)
    /\ ppc' = "collected"
    /\ UNCHANGED <<wav, samples_mono, engineInput, engineSegments, final_segments, srt, vtt>>

\* transcribe_file_advanced_impl, format results: the segments are indexed
PassIndex ==
    /\ ppc = "collected"
    /\ UNCHANGED nonPassVars
    /\ final_segments' = IndexSegments(segments)
    /\ ppc' = "indexed"
    /\ UNCHANGED <<wav, samples_mono, engineInput, engineSegments, segments, srt, vtt>>

\* ... and rendered by generate_srt and generate_vtt
PassFormat ==
    /\ ppc = "indexed"
    /\ UNCHANGED nonPassVars
    /\ srt' = generate_srt(final_segments)
    /\ vtt' = generate_vtt(final_segments)
    /\ ppc' = "formatted"
    /\ UNCHANGED <<wav, samples_mono, engineInput, engineSegments, segments,
                   final_segments>>

\* ---------------------------------------------------- timestamp rendering
StampInit ==
    /\ stampTime = -1
    /\ stampSrt = ""
    /\ stampVtt = ""

\* format_timestamp_srt and format_timestamp_vtt are called on a time.
RenderTimestamps ==
    /\ stampTime = -1
    /\ UNCHANGED nonStampVars
    /\ \E t \in StampTimes :
         /\ stampTime' = t
         /\ stampSrt' = format_timestamp_srt(t)
         /\ stampVtt' = format_timestamp_vtt(t)

\* The strings have been pushed onto the output and are dropped.
DropTimestamps ==
    /\ stampTime # -1
    /\ UNCHANGED nonStampVars
    /\ stampTime' = -1
    /\ stampSrt' = ""
    /\ stampVtt' = ""

PassNext ==
    \/ PassOpenWav
    \/ PassToMono
    \/ PassDecode
    \/ PassCollect
    \/ PassIndex
    \/ PassFormat

BatchNext ==
    \E j \in Jobs :
        \/ JobValidate(j)
        \/ JobConvert(j)
        \/ JobReadWav(j)
        \/ JobLoadModel(j)
        \/ JobDecode(j)
        \/ JobFinish(j)

\* ------------------------------------------------- Whisper live helpers
\* The transcribe_audio_chunk calls that can be in flight.
Calls == 1..NumCalls

\* The model files model_name can resolve to: ggml-tiny.bin and another.
ModelPaths == {1, 2}

\* The errors transcribe_audio_chunk returns.
LiveErrors ==
    {"Model not found", "Failed to write temp WebM file", "Failed to run ffmpeg",
     "FFmpeg conversion failed", "Failed to open WAV file", "Audio chunk too short",
     "Failed to load Whisper model", "Failed to create Whisper state",
     "Transcription failed"}

\* The positions of a call that is not running.
LiveAtRest == {"idle", "Ok"} \cup LiveErrors

\* ffmpeg -ar 16000: the sample rate of live_chunk.wav, and the divisor of
\* `samples_mono.len() as f64 / 16000.0`.
LiveSampleRate == 16000

\* The numbers of samples a call's audio comes to at 16 kHz mono: one short
\* of half a second, and half a second.
ChunkSamples == {LiveSampleRate \div 2 - 1, LiveSampleRate \div 2}

\* Mutant of TooShort: half a second of audio is too short as well.
TooShortAtHalfSecond(n) == 2 * n <= LiveSampleRate

\* duration_seconds < 0.5, duration_seconds being n as f64 / 16000.0: both
\* the quotient and the comparison are exact for these n.
TooShort(n) == 2 * n < LiveSampleRate

\* The audio_data of a call is named by the call it was given to and the
\* number of samples it comes to.  No audio: a file that is not there.
NoAudio == [of |-> 0, samples |-> 0]

\* Mutant of get_or_load: the requested path is stored before the load, and
\* stays stored when the load fails.
get_or_load_path_first(self, path, loads) ==
    IF self.model_path # 0 /\ self.model_path = path /\ self.context # 0
    THEN [context |-> self.context, model_path |-> self.model_path]
    ELSE IF loads
    THEN [context |-> path, model_path |-> path]
    ELSE [context |-> self.context, model_path |-> path]

\* if existing_path == model_path && self.context.is_some()
Reuses(self, path) ==
    self.model_path # 0 /\ self.model_path = path /\ self.context # 0

\* LiveTranscriptionContext::get_or_load(&mut self, model_path): the fields
\* afterwards.  `loads` is whether WhisperContext::new_with_params, which is
\* called unless the stored context is reused, gives a context.
get_or_load(self, path, loads) ==
    IF Reuses(self, path)
    THEN [context |-> self.context, model_path |-> self.model_path]
    ELSE IF loads
    THEN [context |-> path, model_path |-> path]
    ELSE [context |-> self.context, model_path |-> self.model_path]

\* ---------------------------------------------------- Whisper live Init
\* LiveTranscriptionContext::new(): context: None, model_path: None
LiveInit ==
    /\ lpc = [c \in Calls |-> "idle"]
    /\ webmFile = NoAudio
    /\ wavFile = NoAudio
    /\ heard = [c \in Calls |-> 0]
    /\ liveLock = 0
    /\ asked = 0
    /\ context = 0
    /\ model_path = 0

\* ------------------------------------------------- Whisper live actions
\* Call c returns r, "Ok" or an error; the samples it read are dropped.
LiveReturns(c, r) ==
    /\ lpc' = [lpc EXCEPT ![c] = r]
    /\ heard' = [heard EXCEPT ![c] = 0]

\* transcribe_audio_chunk(app, audio_data, model_name) up to the first file
\* it touches: the model file is looked for, transcribe_live_chunk is spawned
\* on a blocking thread and convert_webm_to_wav writes audio_data to
\* live_chunk.webm.
LiveCall(c) ==
    /\ lpc[c] \in LiveAtRest
    /\ UNCHANGED nonLiveVars
    /\ \E n \in ChunkSamples, outcome \in {"written", "Model not found",
                                          "Failed to write temp WebM file"} :
         IF outcome = "written"
         THEN /\ webmFile' = [of |-> c, samples |-> n]
              /\ lpc' = [lpc EXCEPT ![c] = "written"]
              /\ UNCHANGED heard
         ELSE /\ UNCHANGED webmFile
              /\ LiveReturns(c, outcome)
    /\ UNCHANGED <<wavFile, liveLock, asked, context, model_path>>

\* convert_webm_to_wav: ffmpeg -y -i live_chunk.webm ... live_chunk.wav runs:
\* it converts what the input file holds when it runs, fails when the file
\* is not there, and may fail or not start for other reasons.
LiveFfmpeg(c) ==
    /\ lpc[c] = "written"
    /\ UNCHANGED nonLiveVars
    /\ \E outcome \in {"ok", "failed", "Failed to run ffmpeg"} :
         IF outcome = "Failed to run ffmpeg"
         THEN LiveReturns(c, outcome) /\ UNCHANGED wavFile
         ELSE IF outcome = "ok" /\ webmFile # NoAudio
         THEN /\ wavFile' = webmFile
              /\ lpc' = [lpc EXCEPT ![c] = "ffmpeg ok"]
              /\ UNCHANGED heard
         ELSE /\ lpc' = [lpc EXCEPT ![c] = "ffmpeg failed"]
              /\ UNCHANGED <<wavFile, heard>>
    /\ UNCHANGED <<webmFile, liveLock, asked, context, model_path>>

\* convert_webm_to_wav: the input file is removed, then the exit status of
\* ffmpeg is looked at.
LiveRemoveInput(c) ==
    /\ lpc[c] \in {"ffmpeg ok", "ffmpeg failed"}
    /\ UNCHANGED nonLiveVars
    /\ webmFile' = NoAudio
    /\ IF lpc[c] = "ffmpeg ok"
       THEN lpc' = [lpc EXCEPT ![c] = "converted"] /\ UNCHANGED heard
       ELSE LiveReturns(c, "FFmpeg conversion failed")
    /\ UNCHANGED <<wavFile, liveLock, asked, context, model_path>>

\* transcribe_live_chunk, load WAV audio: live_chunk.wav is opened and its
\* samples read; less than 0.5 seconds of them is an error.
LiveReadWav(c) ==
    /\ lpc[c] = "converted"
    /\ UNCHANGED nonLiveVars
    /\ IF wavFile = NoAudio
       THEN LiveReturns(c, "Failed to open WAV file")
       ELSE IF TooShort(wavFile.samples)
       THEN LiveReturns(c, "Audio chunk too short")
       ELSE /\ heard' = [heard EXCEPT ![c] = wavFile.of]
            /\ lpc' = [lpc EXCEPT ![c] = "read"]
    /\ UNCHANGED <<webmFile, wavFile, liveLock, asked, context, model_path>>

\* context_manager.lock() and the head of get_or_load(model_path): the stored
\* context is reused or a load is begun.
LiveLock(c) ==
    /\ lpc[c] = "read"
    /\ UNCHANGED nonLiveVars
    /\ liveLock = 0
    /\ liveLock' = c
    /\ \E m \in ModelPaths :
         /\ asked' = m
         /\ lpc' = [lpc EXCEPT ![c] =
                IF Reuses([context |-> context, model_path |-> model_path], m)
                THEN "loaded" ELSE "loading"]
    /\ UNCHANGED <<webmFile, wavFile, heard, context, model_path>>

\* WhisperContext::new_with_params(...)? and the stores that follow it; an
\* error returns and drops the guard.
LiveLoad(c) ==
    /\ lpc[c] = "loading"
    /\ UNCHANGED nonLiveVars
    /\ \E loads \in BOOLEAN :
         LET r == get_or_load([context |-> context, model_path |-> model_path],
                              asked, loads)
         IN /\ context' = r.context
            /\ model_path' = r.model_path
            /\ IF loads
               THEN /\ lpc' = [lpc EXCEPT ![c] = "loaded"]
                    /\ UNCHANGED <<heard, liveLock, asked>>
               ELSE /\ LiveReturns(c, "Failed to load Whisper model")
                    /\ liveLock' = 0
                    /\ asked' = 0
    /\ UNCHANGED <<webmFile, wavFile>>

\* transcribe_live_chunk from create_state to the end: the state is created,
\* full() runs on the samples read, the segments are collected,
\* live_chunk.wav is removed and the result returned; the guard is dropped.
LiveDecode(c) ==
    /\ lpc[c] = "loaded"
    /\ UNCHANGED nonLiveVars
    /\ \E outcome \in {"ok", "Failed to create Whisper state", "Transcription failed"} :
         IF outcome = "ok"
         THEN wavFile' = NoAudio /\ LiveReturns(c, "Ok")
         ELSE UNCHANGED wavFile /\ LiveReturns(c, outcome)
    /\ liveLock' = 0
    /\ asked' = 0
    /\ UNCHANGED <<webmFile, context, model_path>>

LiveNext ==
    \E c \in Calls :
        \/ LiveCall(c)
        \/ LiveFfmpeg(c)
        \/ LiveRemoveInput(c)
        \/ LiveReadWav(c)
        \/ LiveLock(c)
        \/ LiveLoad(c)
        \/ LiveDecode(c)

Init == VoskInit /\ BatchInit /\ PassInit /\ StampInit /\ LiveInit

VoskNext ==
    \/ Deliver
    \/ \E t \in Workers :
        \/ IssueStart(t)
        \/ IssueProcess(t)
        \/ IssueEnd(t)
        \/ Lock(t)
        \/ StartLoadModel(t)
        \/ StartNewRecognizer(t)
        \/ ProcessLookup(t)
        \/ ProcessDecode(t)
        \/ ProcessPanic(t)
        \/ EndRemove(t)
        \/ EndFinalize(t)
        \/ DropFirstField(t)
        \/ DropSecondField(t)
        \/ Cancel(t)

\* The live path: Vosk commands run concurrently; no batch job runs.
Next == VoskNext

Spec == Init /\ [][Next]_vars

\* The steps of worker t's closure once it holds the lock.  A recognizer call
\* ends by returning or by panicking.
HeldStep(t) ==
    \/ StartLoadModel(t)
    \/ StartNewRecognizer(t)
    \/ ProcessLookup(t)
    \/ ProcessDecode(t)
    \/ ProcessPanic(t)
    \/ EndRemove(t)
    \/ EndFinalize(t)
    \/ DropFirstField(t)
    \/ DropSecondField(t)

\* Fair scheduling: a return value is handed over; a blocking thread that can
\* run again and again does run, and so takes the lock when it is free again
\* and again, and calls into the model loader and the recognizer return.
\* Nothing is asked of the callers, who need not issue any command.
Fairness ==
    /\ WF_vars(Deliver)
    /\ \A t \in Workers : SF_vars(Lock(t)) /\ SF_vars(HeldStep(t))

SpecFair == Init /\ [][Next]_vars /\ Fairness

\* The batch path: transcribe_file_advanced jobs run concurrently; no Vosk
\* command runs.
NextBatch == BatchNext

SpecBatch == Init /\ [][NextBatch]_vars

\* The data path of one transcription pass: the WAV is read, decoded, and the
\* segments are collected, indexed and formatted.
NextPass == PassNext

SpecPass == Init /\ [][NextPass]_vars

\* The timestamp renderers applied to one time after another.
NextStamp == RenderTimestamps \/ DropTimestamps

SpecStamp == Init /\ [][NextStamp]_vars

\* The Whisper live path: transcribe_audio_chunk calls run concurrently.
NextLive == LiveNext

SpecLive == Init /\ [][NextLive]_vars

\* ------------------------------------------------------------ Vosk claims
\* Worker t takes the step that leaves position p.
Leaves(t, p) == pc[t] = p /\ pc'[t] # p

\* Worker t is inside the recognizer of the session its command names.
InRecognizer(t) == pc[t] \in {"decoding", "finalizing"}

\* C1: a process_chunk or end_session whose id is not in the table returns
\* "Session not found"; so does every call on an id that end_session removed.
C1_UnknownIdNotFound ==
    [][\A t \in Workers :
         (Leaves(t, "locked") /\ cmd[t].op \in {"process", "end"}) =>
             /\ cmd[t].id \notin DOMAIN sessions =>
                    returned' = Returned(t, cmd[t], SessionNotFound(cmd[t].id), "none")
             /\ cmd[t].id \in ended =>
                    returned'.val = SessionNotFound(cmd[t].id)]_vars

C1_Witness ==
    /\ returned.cmd.op \in {"process", "end"}
    /\ returned.cmd.id \in ended
    /\ returned.val = SessionNotFound(returned.cmd.id)

\* C2 (as claimed): the table lock is never held while a recognizer decode
\* call runs, so that a command on another session can take the lock.
C2_LockFreeDuringDecode ==
    \A t \in Workers : pc[t] = "decoding" => LockAvailable

\* C3: no two commands are inside the recognizer of the same session at once.
C3_OneMutationPerSession ==
    \A t, u \in Workers :
        (t # u /\ InRecognizer(t) /\ InRecognizer(u)) => cmd[t].id # cmd[u].id

C3_Witness ==
    \E t, u \in Workers :
        /\ pc[t] = "decoding"
        /\ pc[u] = "spawned"
        /\ cmd[u].op \in {"process", "end"}
        /\ cmd[u].id = cmd[t].id

\* C4: a successful start_session returns an id no earlier start_session
\* returned, and the new session is in the table under that id.
C4_FreshId ==
    [][\A t \in Workers :
         (Leaves(t, "model_loaded") /\ returned'.val.ok) =>
             /\ returned'.val.id \notin issued
             /\ returned'.val.id \in DOMAIN sessions'
             /\ sessions'[returned'.val.id] = NewSession(cmd[t].rate)]_vars

C4_Witness ==
    /\ returned.cmd.op = "start"
    /\ returned.val.ok
    /\ Cardinality(issued) >= 2
    /\ ended # {}
    /\ returned.val.id \in DOMAIN sessions

\* C5: an id that end_session removed from the table is never in it again.
C5_FinalizedIsTerminal == ended \cap DOMAIN sessions = {}

C5_Witness ==
    /\ ended # {}
    /\ DOMAIN sessions # {}
    /\ returned.cmd.op = "start"
    /\ returned.val.ok
    /\ returned.val.id \notin ended

\* C6: a frame whose decode failed (state Failed, or an accept error) makes
\* process_chunk return success with empty text and is_partial = true and
\* leaves the session in the table; every process_chunk or end_session on an
\* id that is in the table finds it and returns success.
C6_FailedFrameRecovered ==
    [][\A t \in Workers :
         /\ (Leaves(t, "decoding") /\ returned'.from \in {"Failed", "Err"}) =>
                /\ returned'.val = [ok |-> TRUE, text |-> "", is_partial |-> TRUE]
                /\ cmd[t].id \in DOMAIN sessions'
                /\ sessions'[cmd[t].id].recognizer = "alive"
         /\ (Leaves(t, "locked") /\ cmd[t].op \in {"process", "end"}
                /\ cmd[t].id \in DOMAIN sessions) =>
                pc'[t] \in {"decoding", "finalizing"}
         /\ (Leaves(t, "decoding") /\ returned'.from # "panic") => returned'.val.ok
         /\ Leaves(t, "drop_rest") => returned'.val.ok]_vars

C6_Witness ==
    /\ returned.cmd.op = "process"
    /\ returned.from \in {"Failed", "Err"}
    /\ returned.val.ok
    /\ returned.cmd.id \in DOMAIN sessions
    /\ \E u \in Workers : pc[u] = "spawned" /\ cmd[u].op \in {"process", "end"}
                            /\ cmd[u].id = returned.cmd.id

\* C7: end_session on an id in the table removes exactly that id, leaves
\* every other entry and next_id as they were, lowers the count by one, and
\* returns the recognizer's final text, or "" when it has none.
C7_EndRemovesExactlyOne ==
    [][\A t \in Workers :
         /\ (Leaves(t, "locked") /\ cmd[t].op = "end" /\ cmd[t].id \in DOMAIN sessions) =>
                /\ DOMAIN sessions' = DOMAIN sessions \ {cmd[t].id}
                /\ \A k \in DOMAIN sessions' : sessions'[k] = sessions[k]
                /\ next_id' = next_id
                /\ active_sessions' = active_sessions - 1
         /\ (pc[t] \in {"finalizing", "drop_session", "drop_rest"} /\ pc'[t] # pc[t]) =>
                UNCHANGED <<sessions, recognizerOf, next_id>>
         /\ Leaves(t, "drop_rest") =>
                returned'.val =
                    [ok |-> TRUE,
                     text |-> IF local[t].res.kind = "single"
                              THEN local[t].res.text ELSE ""]]_vars

C7_Witness ==
    /\ returned.cmd.op = "end"
    /\ returned.val.ok
    /\ returned.from = "multiple"
    /\ returned.val.text = ""
    /\ DOMAIN sessions # {}

\* C8 (as claimed): whenever a session's recognizer is alive its model is
\* alive, in the table and in a command's locals during construction and
\* teardown.
C8_RecognizerNeverOutlivesModel ==
    /\ \A id \in DOMAIN sessions :
           sessions[id].recognizer = "alive" => sessions[id].model = "alive"
    /\ \A t \in Workers :
           local[t].recognizer = "alive" => local[t].model = "alive"

\* C9 (as claimed): after the processing of one session terminated abnormally
\* inside the manager, a command on any other session (or a start) still
\* gets the manager and goes on.
C9_OtherSessionsUnaffected ==
    [][\A u \in Workers :
         (/\ Leaves(u, "spawned")
          /\ poisonedBy # "none"
          /\ \/ cmd[u].op = "start"
             \/ cmd[u].id \in DOMAIN sessions \ {poisonedBy}) =>
             pc'[u] = "locked"]_vars

\* ----------------------------------------------------------- batch claims
\* C10 (as claimed): within one job no event of an earlier stage is emitted
\* after an event of a later stage, the stages being ordered Converting,
\* DetectingLanguage, LanguageDetected, Transcribing, GeneratingSubtitles,
\* Complete.
C10_StagesInOrder ==
    \A j \in Jobs :
        \A i, k \in 1..Len(events[j]) :
            i < k => StageRank(events[j][i]) <= StageRank(events[j][k])

\* The progress values of the Transcribing events of a log, in emission order.
RECURSIVE TranscribingPercents(_)
TranscribingPercents(log) ==
    IF log = <<>> THEN <<>>
    ELSE IF Head(log).type = "transcribing"
         THEN <<Head(log).progress>> \o TranscribingPercents(Tail(log))
         ELSE TranscribingPercents(Tail(log))

\* Job j returned Ok(TranscriptionResult).
JobSucceeded(j) == jpc[j] = "done" /\ jresult[j].ok

\* C11 (as claimed): in a job that returned a result, the Transcribing
\* percent values are non-decreasing in emission order and the last one is
\* 100.
C11_PercentsEndAtHundred ==
    \A j \in Jobs :
        JobSucceeded(j) =>
            LET ps == TranscribingPercents(events[j]) IN
            /\ \A i, k \in 1..Len(ps) : i < k => ps[i] <= ps[k]
            /\ ps # <<>>
            /\ ps[Len(ps)] = 100

\* C12 (as claimed): once a job has returned, with a result or an error, the
\* temp_audio.wav its conversion wrote is no longer on disk.
C12_TempWavGoneWhenDone ==
    \A j \in Jobs : jpc[j] = "done" => tempWav # j

\* Job j emitted an event of type ty.
HasEvent(j, ty) == \E i \in 1..Len(events[j]) : events[j][i].type = ty

\* The errors of a failed conversion, engine load, decode or worker join.
PipelineErrors ==
    {"ffmpeg conversion failed", "Failed to open WAV file", "Unsupported WAV format",
     "Failed to load Whisper model", "Failed to create Whisper state",
     "Transcription failed", "Failed to spawn blocking Whisper task"}

\* C13: a job that returned without a result returned an error and emitted
\* neither GeneratingSubtitles nor Complete, whichever of conversion, engine
\* load and decode failed; a job that returned without Complete returned an
\* error; Complete is only ever in the log of a job that returned a result.
C13_NoPartialSuccess ==
    \A j \in Jobs :
        /\ (jpc[j] = "done" /\ ~jresult[j].ok) =>
               /\ ~HasEvent(j, "generating_subtitles")
               /\ ~HasEvent(j, "complete")
        /\ (jpc[j] = "done" /\ ~HasEvent(j, "complete")) =>
               /\ ~jresult[j].ok
               /\ jresult[j] # NoJobResult
        /\ HasEvent(j, "complete") => JobSucceeded(j)

C13_Witness ==
    \E j, k \in Jobs :
        /\ jpc[j] = "done"
        /\ jresult[j] = JobErr("Transcription failed")
        /\ events[j] = <<Converting, Transcribing(TranscribingProgress)>>
        /\ JobSucceeded(k)
        /\ HasEvent(k, "complete")

\* The position a job is at after the emits of the step it takes from p.
StageAfterEmit(p) ==
    CASE p = "idle" -> "converting"
      [] p = "converting" -> "spawned"
      [] p = "decoding" -> "formatting"
      [] p = "formatting" -> "done"

\* C14: a step in which a delivery of one of job j's events fails takes the
\* job where the same step takes it when every delivery succeeds: the job
\* goes on to its next position, its return value is untouched until the
\* step that returns the result, and that step returns the result.
C14_EmitFailureIgnored ==
    [][\A j \in Jobs :
         undelivered'[j] > undelivered[j] =>
             /\ jpc'[j] = StageAfterEmit(jpc[j])
             /\ jresult'[j] = IF jpc[j] = "formatting"
                              THEN [ok |-> TRUE, audio |-> audio[j]]
                              ELSE jresult[j]]_vars

C14_Witness ==
    \E j, k \in Jobs :
        /\ JobSucceeded(j)
        /\ undelivered[j] = Len(events[j])
        /\ JobSucceeded(k)
        /\ undelivered[k] = 0

\* The number of WhisperContext instances loaded and not yet dropped.
EnginesResident == Cardinality({j \in Jobs : jpc[j] = "decoding"})

\* C15 (as claimed): the number of resident engine instances never exceeds
\* the bound of a gate; here a gate that admits one unit of work fewer than
\* there are units in flight (bound 1 for two, bound 2 for three).
C15_EnginesWithinGate == EnginesResident <= NumJobs - 1

\* ------------------------------------------------------ single-pass claims
\* The pass has produced final_segments.
Indexed == ppc \in {"indexed", "formatted"}

\* C16 (as claimed): the segments of a result are ordered by start_time,
\* non-decreasing, whatever the engine returned.
C16_SegmentsSortedByStart ==
    Indexed =>
        \A k \in 1..(Len(final_segments) - 1) :
            final_segments[k].start_time <= final_segments[k + 1].start_time

\* C17: the segment at position k of a result (counted from 0) has index k,
\* also when segments of the engine were left out before it.
C17_IndexIsPosition ==
    Indexed =>
        \A k \in 1..Len(final_segments) : final_segments[k].index = k - 1

C17_Witness ==
    /\ Indexed
    /\ final_segments # <<>>
    /\ Len(engineSegments) > Len(final_segments)
    /\ Trim(engineSegments[1].text) = <<>>

\* C18 (as claimed): no two adjacent segments of a result have the same text
\* and start times less than one second apart.
C18_NoBoundaryDuplicates ==
    Indexed =>
        \A k \in 1..(Len(final_segments) - 1) :
            LET a == final_segments[k]
                b == final_segments[k + 1]
                d == IF a.start_time <= b.start_time
                     THEN b.start_time - a.start_time
                     ELSE a.start_time - b.start_time
            IN ~(a.text = b.text /\ d < CentisPerSecond)

\* The number of sample times of the input: one per sample for a mono WAV,
\* one per left/right pair for a stereo WAV.
TotalFrames == Len(wav.samples) \div wav.channels

\* The WAV samples taken at sample time f.
FrameOf(f) == {i \in 1..Len(wav.samples) : (i - 1) \div wav.channels = f - 1}

\* C19: the units of audio handed to the engine cover every sample time of
\* the input, each with the samples read at that time and in time order;
\* there is one unit, so no pair of consecutive units whose overlap could
\* differ from a configured one.
C19_UnitsCoverInput ==
    engineInput # <<>> =>
        /\ \A f \in 1..TotalFrames :
               \E u \in 1..Len(engineInput) :
                   LET k == f - engineInput[u].offset IN
                   /\ k \in 1..Len(engineInput[u].samples)
                   /\ engineInput[u].samples[k] = FrameOf(f)
        /\ \A u \in 1..Len(engineInput) :
               engineInput[u].offset + Len(engineInput[u].samples) <= TotalFrames
        /\ Len(engineInput) = 1

C19_Witness ==
    /\ ppc = "decoded"
    /\ wav.channels = 2
    /\ Len(wav.samples) = 4
    /\ Len(engineInput[1].samples) = 2

\* The number a line spells, -1 when it spells none.
ParseInt(line) ==
    IF \E n \in 0..Len(srt) : line = <<ToString(n)>>
    THEN CHOOSE n \in 0..Len(srt) : line = <<ToString(n)>>
    ELSE -1

\* The index lines of an SRT text read back: the first line of each block,
\* blocks being separated by blank lines.
ParseIndexLines(lines) ==
    LET firsts == SelectSeq([i \in 1..Len(lines) |-> i],
                            LAMBDA i : lines[i] # <<>> /\ (i = 1 \/ lines[i - 1] = <<>>))
    IN [k \in 1..Len(firsts) |-> ParseInt(lines[firsts[k]])]

\* C20: the index lines of the SRT text of a non-empty segment list, read
\* back in order, are 1, 2, ..., n.
C20_SrtIndexLinesCountUp ==
    (ppc = "formatted" /\ final_segments # <<>>) =>
        ParseIndexLines(srt) = [k \in 1..Len(final_segments) |-> k]

C20_Witness ==
    /\ ppc = "formatted"
    /\ Len(final_segments) = 2
    /\ final_segments[1].text = <<"7">>
    /\ Len(engineSegments) = 2

\* ---------------------------------------------------------- format claims
\* HH:MM:SS<sep>mmm computed on whole thousandths.
ExactStamp(t, sep) ==
    Pad2(t \div 3600000) \o ":" \o Pad2((t \div 60000) % 60) \o ":"
        \o Pad2((t \div 1000) % 60) \o sep \o Pad3(t % 1000)

\* C21 (as claimed): for a time of t whole thousandths of a second the SRT
\* renderer returns HH:MM:SS,mmm and the VTT renderer HH:MM:SS.mmm with
\* hours = t div 3600000, minutes = (t div 60000) mod 60, seconds =
\* (t div 1000) mod 60 and mmm = t mod 1000; 3661.234 s gives 01:01:01,234
\* and 01:01:01.234.
C21_TimestampsExact ==
    stampTime >= 0 =>
        /\ stampSrt = ExactStamp(stampTime, ",")
        /\ stampVtt = ExactStamp(stampTime, ".")
        /\ stampTime = 3661234 =>
               (stampSrt = "01:01:01,234" /\ stampVtt = "01:01:01.234")

\* C22: the VTT text of n segments is the line WEBVTT and a blank line,
\* then n cues in segment order, each a timestamp line, the trimmed text and
\* a blank line; for no segment it is the header alone and the SRT text is
\* empty.
C22_VttHeaderAndCues ==
    ppc = "formatted" =>
        LET n == Len(final_segments) IN
        /\ Len(vtt) = 2 + 3 * n
        /\ vtt[1] = <<"WEBVTT">>
        /\ vtt[2] = <<>>
        /\ \A k \in 1..n :
               /\ Len(vtt[3 * k]) = 3
               /\ vtt[3 * k][1] = format_timestamp_vtt(SecondsOf(final_segments[k].start_time))
               /\ vtt[3 * k][2] = " --> "
               /\ vtt[3 * k][3] = format_timestamp_vtt(SecondsOf(final_segments[k].end_time))
               /\ vtt[3 * k + 1] = Trim(final_segments[k].text)
               /\ vtt[3 * k + 2] = <<>>
        /\ n = 0 => (vtt = << <<"WEBVTT">>, <<>> >> /\ srt = <<>>)

C22_Witness ==
    /\ ppc = "formatted"
    /\ Len(final_segments) = 2
    /\ Len(vtt) = 8
    /\ vtt[3] # vtt[6]

\* ------------------------------------------------------- more Vosk claims
\* C23: process_chunk on a session in the table returns is_partial = false
\* exactly when accept_waveform returned Finalized, and is_partial = true
\* when it returned Running or Failed or rejected the waveform.
C23_PartialUnlessFinalized ==
    [][\A t \in Workers :
         (Leaves(t, "decoding") /\ returned'.from # "panic") =>
             /\ returned'.val.ok
             /\ returned'.val.is_partial = (returned'.from # "Finalized")
             /\ returned'.from \in {"Running", "Failed", "Err"} =>
                    returned'.val.is_partial]_vars

C23_Witness ==
    /\ returned.cmd.op = "process"
    /\ returned.from = "Finalized"
    /\ returned.val = [ok |-> TRUE, text |-> "hello", is_partial |-> FALSE]

\* C24: every session in the table owns one recognizer, the one created at
\* its start; no two sessions own the same recognizer; and a process_chunk
\* on id changes nothing but the session of id: every other session, the
\* recognizer each session owns, the keys of the table and next_id are as
\* they were.
C24_OneRecognizerPerSession ==
    [][/\ DOMAIN recognizerOf' = DOMAIN sessions'
       /\ \A a, b \in DOMAIN sessions' :
              a # b => recognizerOf'[a] # recognizerOf'[b]
       /\ \A id \in DOMAIN sessions \cap DOMAIN sessions' :
              recognizerOf'[id] = recognizerOf[id]
       /\ \A t \in Workers :
              (pc[t] \in {"locked", "decoding"} /\ cmd[t].op = "process"
                 /\ pc'[t] # pc[t]) =>
                  /\ DOMAIN sessions' = DOMAIN sessions
                  /\ next_id' = next_id
                  /\ recognizerOf' = recognizerOf
                  /\ \A k \in DOMAIN sessions \ {cmd[t].id} :
                         sessions'[k] = sessions[k]]_vars

C24_Witness ==
    /\ returned.cmd.op = "process"
    /\ returned.from = "Running"
    /\ Cardinality(DOMAIN sessions) = 2
    /\ sessions[returned.cmd.id].utterance
    /\ \E k \in DOMAIN sessions : ~sessions[k].utterance
    /\ ended # {}

\* The strictly increasing maps from 1..n into 1..m: the ways of picking n
\* of m positions without changing their order.
OrderedPicks(n, m) ==
    {f \in [1..n -> 1..m] : \A a, b \in 1..n : a < b => f[a] < f[b]}

\* C25: no segment a transcription pass returns has a text that is empty
\* after trimming, and the segments it returns are segments of the engine's
\* output in the order the engine gave them: each returned segment is the
\* trimmed form of a readable engine segment, at positions that increase.
C25_KeptNonEmptyInEngineOrder ==
    ppc \in {"collected", "indexed", "formatted"} =>
        /\ \A k \in 1..Len(segments) : Trim(segments[k].text) # <<>>
        /\ \E f \in OrderedPicks(Len(segments), Len(engineSegments)) :
               \A k \in 1..Len(segments) :
                   /\ engineSegments[f[k]].readable
                   /\ segments[k].text = Trim(engineSegments[f[k]].text)
                   /\ segments[k].start_time = engineSegments[f[k]].t0
                   /\ segments[k].end_time = engineSegments[f[k]].t1

\* The engine gave two or more segments, a readable blank one among them,
\* and the one segment returned is the trimmed " hello".
C25_Witness ==
    /\ ppc = "collected"
    /\ Len(engineSegments) >= 2
    /\ \E i \in 1..Len(engineSegments) :
           engineSegments[i].readable /\ engineSegments[i].text = <<" ">>
    /\ Len(segments) = 1
    /\ segments[1].text = <<"hello">>

\* C26 (as claimed): the audio a job decodes is the conversion of its own
\* input file: what it read from temp_audio.wav was written by itself, and
\* a job whose conversion succeeded finds the file it wrote still there.
C26_OwnAudioDecoded ==
    \A j \in Jobs :
        /\ audio[j] \in {0, j}
        /\ (jpc[j] = "spawned" => tempWav = j)

\* C27 (as claimed): the samples a call reads and transcribes were converted
\* from its own audio bytes, and a call whose conversion succeeded finds the
\* WAV made from its bytes still there.
C27_OwnChunkTranscribed ==
    \A c \in Calls :
        /\ heard[c] # 0 => heard[c] = c
        /\ lpc[c] = "converted" => wavFile.of = c

\* The fields of LIVE_CONTEXT.
LiveContext(ctx, path) == [context |-> ctx, model_path |-> path]

\* C28: in every state a context is stored exactly when a model path is
\* stored, and the stored context was loaded from the stored path.  A
\* get_or_load asking for the stored path goes on with the stored context
\* without loading, and leaves both fields as they are; one asking for
\* another path loads, and when the load is done both fields are the path
\* asked for; a load that fails leaves both fields as they were.
C28_ContextMatchesPath ==
    [][/\ (context' # 0) <=> (model_path' # 0)
       /\ context' = model_path'
       /\ \A c \in Calls :
            /\ (lpc[c] = "read" /\ lpc'[c] # "read") =>
                  /\ <<context', model_path'>> = <<context, model_path>>
                  /\ (model_path # 0 /\ asked' = model_path) => lpc'[c] = "loaded"
                  /\ (model_path = 0 \/ asked' # model_path) => lpc'[c] = "loading"
            /\ (lpc[c] = "loading" /\ lpc'[c] = "loaded") =>
                  <<context', model_path'>> = <<asked, asked>>
            /\ (lpc[c] = "loading" /\ lpc'[c] = "Failed to load Whisper model") =>
                  <<context', model_path'>> = <<context, model_path>>
            /\ (lpc[c] = "loaded" /\ lpc'[c] # "loaded") =>
                  <<context', model_path'>> = <<context, model_path>>]_vars

\* A context loaded from model file 1 is stored, a load of model file 2 has
\* just failed, and another call has already gone on with the stored context.
C28_Witness ==
    /\ LiveContext(context, model_path) = LiveContext(1, 1)
    /\ \E c \in Calls : lpc[c] = "Failed to load Whisper model"
    /\ \E c \in Calls : lpc[c] = "Ok"

\* C29: a start_session that fails because the model cannot be loaded or the
\* recognizer cannot be created leaves the session table and next_id as they
\* were: no session is inserted and no id is used up.
C29_FailedStartChangesNothing ==
    [][\A t \in Workers :
         (/\ cmd[t].op = "start"
          /\ Leaves(t, "locked") \/ Leaves(t, "model_loaded")
          /\ ~returned'.val.ok) =>
             /\ sessions' = sessions
             /\ recognizerOf' = recognizerOf
             /\ next_id' = next_id
             /\ issued' = issued]_vars

\* A start has just failed for want of a recognizer, after an earlier start
\* put a session in the table, and the next id is still the second.
C29_Witness ==
    /\ returned.cmd.op = "start"
    /\ ~returned.val.ok
    /\ returned.val.err = "Failed to create Vosk recognizer"
    /\ DOMAIN sessions # {}
    /\ next_id = 2

\* C30: a command that has returned, by success or by error, does not hold
\* the session-manager lock, and under fair scheduling every command whose
\* closure was spawned completes, whatever the other commands do.
C30_EveryCommandCompletes ==
    /\ [](\A t \in Workers : pc[t] \in {"idle", "spawned"} => mutexHolder # t)
    /\ \A t \in Workers : (pc[t] = "spawned") ~> (pc[t] = "idle")

\* An end_session has just returned its text and let go of the lock while
\* another command's closure is waiting for it.
C30_Witness ==
    /\ returned.cmd.op = "end"
    /\ returned.val.ok
    /\ mutexHolder = 0
    /\ \E u \in Workers : pc[u] = "spawned" /\ u # returned.worker

\* The errors of a job whose input file or model file is not there.
MissingFileErrors == {JobErr("File not found"), JobErr("Model not found")}

\* C31: a job whose input file or model file does not exist fails at once,
\* from its first step: it has emitted no progress event, the step that
\* fails it leaves temp_audio.wav and every job's samples as they were, and
\* the job never reads audio or holds an engine afterwards.
C31_MissingFileFailsFirst ==
    [][\A j \in Jobs :
         /\ (jresult'[j] \in MissingFileErrors /\ jresult[j] \notin MissingFileErrors) =>
              /\ jpc[j] = "idle"
              /\ tempWav' = tempWav
              /\ audio' = audio
         /\ jresult'[j] \in MissingFileErrors =>
              /\ jpc'[j] = "done"
              /\ events'[j] = <<>>
              /\ undelivered'[j] = 0
              /\ audio'[j] = 0]_vars

\* One job failed for want of its model file with nothing emitted, while the
\* other had converted its input and was in the engine.
C31_Witness ==
    \E j, k \in Jobs :
        /\ jresult[j] = JobErr("Model not found")
        /\ events[j] = <<>>
        /\ jpc[k] = "decoding"
        /\ tempWav = k

\* The number of samples in half a second of live_chunk.wav.
HalfSecond == LiveSampleRate \div 2

\* C32: a call whose chunk, as read from live_chunk.wav, holds less than half
\* a second of audio returns "Audio chunk too short", and a chunk of half a
\* second or more is not turned away for its length.  The call that is
\* turned away comes straight from the read: it does not hold the context
\* lock, and its return leaves the lock, the stored context and the stored
\* model path as they were.
C32_ShortChunkRejectedBeforeLock ==
    [][\A c \in Calls :
         /\ (lpc[c] = "converted" /\ lpc'[c] # "converted" /\ wavFile # NoAudio) =>
              ((wavFile.samples < HalfSecond) <=> (lpc'[c] = "Audio chunk too short"))
         /\ (lpc'[c] = "Audio chunk too short" /\ lpc[c] # "Audio chunk too short") =>
              /\ lpc[c] = "converted"
              /\ liveLock # c
              /\ liveLock' = liveLock
              /\ asked' = asked
              /\ context' = context
              /\ model_path' = model_path]_vars

\* A call has been turned away for its own short chunk while another call
\* holds the lock and a context loaded from model file 1 is stored.
C32_Witness ==
    \E c, d \in Calls :
        /\ lpc[c] = "Audio chunk too short"
        /\ lpc[d] = "loaded"
        /\ liveLock = d
        /\ LiveContext(context, model_path) = LiveContext(1, 1)
        /\ wavFile = [of |-> c, samples |-> HalfSecond - 1]
====
